---------------------------- MODULE Spec2Model ----------------------------
(***************************************************************************)
(* Model of source/download_funcs.hpp of Ultrahand-Overlay: downloadFile   *)
(* (libcurl transfer to a file, cancellable from its progress callback)    *)
(* and unzipFile (zziplib walk of an archive with path sanitisation),      *)
(* together with the three process-wide atomics they share.                *)
(*                                                                         *)
(* One worker context runs one operation at a time (both functions block   *)
(* their caller); a second context may store true into either abort flag   *)
(* between any two steps of the worker.                                    *)
(*                                                                         *)
(* Strings are sequences of one-character strings; positions are 1-based   *)
(* and 0 stands for std::string::npos.                                     *)
(***************************************************************************)
EXTENDS Integers, Sequences, FiniteSets, TLC

(***************************************************************************)
(* Bounds of the model.                                                    *)
(***************************************************************************)
\* number of calls of downloadFile / unzipFile in one behaviour
MaxCalls == 2
\* number of entries of an archive
MaxEntries == 2
\* largest byte count the transport writes or reports
MaxBytes == 1
\* longest generated entry name of the sanitisation specification
MaxNameLen == 4

(***************************************************************************)
(* Program constants.                                                      *)
(***************************************************************************)
\* a retry loop with one more attempt
MAX_RETRIES_OneMore == 3 + 1

\* line 124
MAX_RETRIES == 3

npos == 0

(***************************************************************************)
(* std::string operations used by the two functions.                       *)
(***************************************************************************)
\* s.find(c, from): least position >= from holding c
Find(s, c, from) ==
    LET hits == {i \in from..Len(s) : s[i] = c}
    IN  IF hits = {} THEN npos ELSE CHOOSE i \in hits : \A j \in hits : i <= j

\* s.find_last_of(c)
FindLastOf(s, c) ==
    LET hits == {i \in 1..Len(s) : s[i] = c}
    IN  IF hits = {} THEN npos ELSE CHOOSE i \in hits : \A j \in hits : i >= j

\* s.find_first_of(chars) != npos
FindFirstOf(s, chars) ==
    LET hits == {i \in 1..Len(s) : s[i] \in chars}
    IN  IF hits = {} THEN npos ELSE CHOOSE i \in hits : \A j \in hits : i <= j

\* s.find("  ", from): least position >= from where two spaces start
FindDoubleSpace(s, from) ==
    LET hits == {i \in from..(Len(s) - 1) : s[i] = " " /\ s[i + 1] = " "}
    IN  IF hits = {} THEN npos ELSE CHOOSE i \in hits : \A j \in hits : i <= j

\* s.substr(0, s.find_last_of('/')) + "/"   (substr(0, npos) is all of s)
ParentDir(s) ==
    LET lastSlash == FindLastOf(s, "/")
    IN  (IF lastSlash = npos THEN s ELSE SubSeq(s, 1, lastSlash - 1)) \o <<"/">>

\* s.size() >= 3 && s.substr(s.size() - 3) == "..."
EndsWithDots(s) ==
    /\ Len(s) >= 3
    /\ SubSeq(s, Len(s) - 2, Len(s)) = <<".", ".", ".">>

(***************************************************************************)
(* unzipFile, lines 256-271: the two sanitisation loops.                   *)
(***************************************************************************)
\* the while loop of lines 260-263, entered with colonPos
RECURSIVE ReplaceColonsFrom(_, _)
ReplaceColonsFrom(path, colonPos) ==
    IF colonPos = npos
    THEN path
    ELSE ReplaceColonsFrom([path EXCEPT ![colonPos] = " "],
                           Find([path EXCEPT ![colonPos] = " "], ":", colonPos + 1))

\* lines 257-264 with the inner find starting at firstColonPos
ReplaceColons_FromFirst(path) == ReplaceColonsFrom(path, Find(path, ":", 1))

\* lines 257-264
ReplaceColons(path) ==
    LET firstColonPos == Find(path, ":", 1)
    IN  IF firstColonPos # npos
        THEN ReplaceColonsFrom(path, Find(path, ":", firstColonPos + 1))
        ELSE path

\* the while loop of lines 268-271, entered with pos
RECURSIVE CollapseFrom(_, _)
CollapseFrom(path, pos) ==
    IF pos = npos
    THEN path
    ELSE LET replaced == SubSeq(path, 1, pos) \o SubSeq(path, pos + 2, Len(path))
         IN  CollapseFrom(replaced, FindDoubleSpace(replaced, pos + 1))

\* lines 267-271
CollapseSpaces(path) == CollapseFrom(path, FindDoubleSpace(path, 1))


(***************************************************************************)
(* State.                                                                  *)
(***************************************************************************)
VARIABLES
    abortDownload,       \* std::atomic<bool> abortDownload, line 34
    abortUnzip,          \* std::atomic<bool> abortUnzip, line 36
    downloadPercentage,  \* std::atomic<int> downloadPercentage, line 37
    files,               \* the filesystem's regular files: path -> size
    dirs,                \* the filesystem's directories (paths ending in "/")
    pc,                  \* position of the worker context
    op,                  \* the function the worker runs or ran last
    calls,               \* number of calls made so far
    ret,                 \* value returned by the last call (read at pc = "done")
    handles,             \* state of the handles the running function acquired
    url,                 \* downloadFile: parameter url
    toDestination,       \* parameter toDestination of either function
    destination,         \* downloadFile: local destination
    retryCount,          \* downloadFile: local retryCount
    result,              \* downloadFile: CURLcode of curl_easy_perform
    written,             \* bytes writeCallback has written during the transfer
    zip,                 \* unzipFile: the archive's directory index
    idx,                 \* unzipFile: number of entries zzip_dir_read returned
    success,             \* unzipFile: local success
    extractedFilePath,   \* unzipFile: local extractedFilePath of the last entry
    req                  \* history: abort requests for the running function

vars == <<abortDownload, abortUnzip, downloadPercentage, files, dirs, pc, op,
          calls, ret, handles, url, toDestination, destination, retryCount,
          result, written, zip, idx, success, extractedFilePath, req>>

\* req records, for the running (or last) call and its own abort flag:
\*   "none"  the flag was clear at the call and no request was made since;
\*   "stale" the flag was set when the call was made (a request made while
\*           nothing was in flight, or left by an earlier call), none since;
\*   "live"  a request was made after the call's store at entry;
\*   "seen"  as "live", and progressCallback has been invoked since.

HandleNames == {"curl", "file", "dir", "zfile", "outputFile"}

NoHandles == [h \in HandleNames |-> "none"]

\* curl_easy_init, fopen, zzip_dir_open, zzip_file_open returning a handle
\* (a handle still open and overwritten is leaked: "misused")
Acquire(hs, h) == [hs EXCEPT ![h] = IF hs[h] = "open" THEN "misused" ELSE "open"]

\* curl_easy_cleanup, fclose, zzip_dir_close, zzip_file_close
Release(hs, h) == [hs EXCEPT ![h] = IF hs[h] = "open" THEN "closed" ELSE "misused"]

\* any other call that is handed the handle
Use(hs, h) == [hs EXCEPT ![h] = IF hs[h] = "open" THEN "open" ELSE "misused"]

(***************************************************************************)
(* The filesystem as the two functions use it.                             *)
(***************************************************************************)
\* every prefix of path that ends in a separator
DirPrefixes(path) == {SubSeq(path, 1, i) : i \in {j \in 1..Len(path) : path[j] = "/"}}

\* createDirectory(path) of path_funcs.hpp: creates all missing segments
CreateDirectory(ds, path) == ds \cup DirPrefixes(path)

\* fopen(path, "wb") can succeed: path does not name a directory
FopenPossible(ds, path) == (path \o <<"/">>) \notin ds

\* fopen(path, "wb") succeeded: the file exists and is empty
FopenWb(fs, path) == [p \in (DOMAIN fs) \cup {path} |-> IF p = path THEN 0 ELSE fs[p]]

\* fwrite of n bytes to the open file
Fwrite(fs, path, n) == [fs EXCEPT ![path] = @ + n]

\* std::remove(path)
StdRemove(fs, path) == [p \in (DOMAIN fs) \ {path} |-> fs[p]]


(***************************************************************************)
(* Inputs.                                                                 *)
(***************************************************************************)
\* url arguments: with a final segment, without any '/', with a brace
Urls == { <<"h", "/", "f">>, <<"h", "f">>, <<"h", "{", "f">>, <<"}", "/", "f">> }

\* toDestination arguments of downloadFile: a directory and a file path
\* (never empty: destination.back() of line 105 needs a character)
DownloadDests == { <<"o", "/">>, <<"o", "/", "f">> }

\* toDestination arguments of unzipFile
UnzipDests == { <<"o", "/">> }

\* what zzip_file_open / fopen / the copy loop do for an entry: "ok" all
\* succeed, "nozip" zzip_file_open fails, "noout" fopen of the output file
\* fails, "nowrite" both open and the copy loop of lines 297-299 delivers
\* nothing (zzip_file_read returns an error, or fwrite writes 0 bytes)
Entries ==
    { [d_name |-> <<"a">>, open |-> "ok"],
      [d_name |-> <<"b">>, open |-> "ok"],
      [d_name |-> <<"c">>, open |-> "nozip"],
      [d_name |-> <<"c">>, open |-> "noout"],
      [d_name |-> <<>>, open |-> "ok"],
      [d_name |-> <<".", ".", ".">>, open |-> "ok"] }

RECURSIVE SeqsUpTo(_, _)
\* all sequences over S of length at most n
SeqsUpTo(S, n) ==
    IF n = 0
    THEN { <<>> }
    ELSE LET shorter == SeqsUpTo(S, n - 1)
         IN  shorter \cup { Append(q, x) : q \in {r \in shorter : Len(r) = n - 1}, x \in S }

Archives == SeqsUpTo(Entries, MaxEntries)

\* the totalToDownload and nowDownloaded libcurl may hand to progressCallback:
\* the total is the announced size, or not positive while it is unknown; the
\* count may exceed the announced size
Totals == {-1, 0, MaxBytes}
Nows == 0..(MaxBytes + 1)

(***************************************************************************)
(* Init: the state after static initialisation (lines 34-37).              *)
(***************************************************************************)
Locals0 ==
    /\ handles = NoHandles
    /\ url = <<>>
    /\ toDestination = <<>>
    /\ destination = <<>>
    /\ retryCount = 0
    /\ result = "none"
    /\ written = 0
    /\ zip = <<>>
    /\ idx = 0
    /\ success = TRUE
    /\ extractedFilePath = <<>>

Init ==
    /\ abortDownload = FALSE
    /\ abortUnzip = FALSE
    /\ downloadPercentage = -1
    /\ files = << >>
    /\ dirs = {}
    /\ pc = "idle"
    /\ op = "none"
    /\ calls = 0
    /\ ret = FALSE
    /\ req = "none"
    /\ Locals0

\* the worker is inside downloadFile, past the store of line 95
InDownload == pc \in {"d_validate", "d_init", "d_open", "d_perform", "d_finish"}

\* the worker is inside unzipFile, past the store of line 228
InUnzip == pc \in {"u_open", "u_loop", "u_close"}

(***************************************************************************)
(* The second context: stores into the abort flags.                        *)
(***************************************************************************)
\* abortDownload.store(true) by a caller
RequestAbortDownload ==
    /\ abortDownload' = TRUE
    /\ req' = IF InDownload /\ req # "seen" THEN "live" ELSE req
    /\ UNCHANGED <<abortUnzip, downloadPercentage, files, dirs, pc, op, calls, ret,
                   handles, url, toDestination, destination, retryCount, result,
                   written, zip, idx, success, extractedFilePath>>

\* abortUnzip.store(true) by a caller
RequestAbortUnzip ==
    /\ abortUnzip' = TRUE
    /\ req' = IF InUnzip THEN "live" ELSE req
    /\ UNCHANGED <<abortDownload, downloadPercentage, files, dirs, pc, op, calls, ret,
                   handles, url, toDestination, destination, retryCount, result,
                   written, zip, idx, success, extractedFilePath>>

(***************************************************************************)
(* updateProgress and progressCallback, lines 48-82.                       *)
(***************************************************************************)
\* static_cast<int>(round(nowDownloaded / totalToDownload * 100)), both >= 0
Percent(totalToDownload, nowDownloaded) ==
    (200 * nowDownloaded + totalToDownload) \div (2 * totalToDownload)

\* updateProgress storing 0 where the total is unknown
updateProgress_ZeroWhenUnknown(percentage, totalToDownload, nowDownloaded) ==
    IF totalToDownload <= 0
    THEN 0
    ELSE Percent(totalToDownload, nowDownloaded)

\* updateProgress: the value of *percentage after the call
updateProgress(percentage, totalToDownload, nowDownloaded) ==
    IF totalToDownload <= 0
    THEN percentage
    ELSE Percent(totalToDownload, nowDownloaded)

\* progressCallback without the store of line 73
progressCallback_NoReset(percentage, abort, totalToDownload, nowDownloaded) ==
    [percentage |-> updateProgress(percentage, totalToDownload, nowDownloaded),
     rc |-> IF abort THEN 1 ELSE 0]

\* progressCallback: [percentage after the call, value returned]
progressCallback(percentage, abort, totalToDownload, nowDownloaded) ==
    IF abort
    THEN [percentage |-> -1, rc |-> 1]
    ELSE [percentage |-> updateProgress(percentage, totalToDownload, nowDownloaded),
          rc |-> 0]


(***************************************************************************)
(* downloadFile, lines 94-215.                                             *)
(***************************************************************************)
\* what ftell(file) of line 206 may return: file was closed on line 189, so
\* the call reads a released FILE: an error, zero, or a stale position
FtellAfterFclose(n) == {-1, 0, n}

\* downloadFile without the store of line 95
AbortDownloadAtEntry_Kept(flag) == flag

\* the value abortDownload holds after line 95
AbortDownloadAtEntry(flag) == FALSE

\* the call and line 95
DownloadCall(u, d) ==
    /\ pc = "idle"
    /\ calls < MaxCalls
    /\ pc' = "d_validate"
    /\ op' = "download"
    /\ calls' = calls + 1
    /\ ret' = FALSE
    /\ abortDownload' = AbortDownloadAtEntry(abortDownload)
    /\ req' = IF abortDownload THEN "stale" ELSE "none"
    /\ handles' = NoHandles
    /\ url' = u
    /\ toDestination' = d
    /\ destination' = <<>>
    /\ retryCount' = 0
    /\ result' = "none"
    /\ written' = 0
    /\ zip' = <<>>
    /\ idx' = 0
    /\ success' = TRUE
    /\ extractedFilePath' = <<>>
    /\ UNCHANGED <<abortUnzip, downloadPercentage, files, dirs>>

\* a brace check that looks for '{' alone
UrlAccepted_OpenBraceOnly(u) == FindFirstOf(u, {"{"}) = npos

\* line 97: the url passes the brace check
UrlAccepted(u) == FindFirstOf(u, {"{", "}"}) = npos

\* lines 97-120: the two validations and the directory creation
DownloadValidate ==
    /\ pc = "d_validate"
    /\ IF ~UrlAccepted(url)
       THEN /\ pc' = "done"
            /\ ret' = FALSE
            /\ UNCHANGED <<destination, dirs>>
       ELSE IF toDestination[Len(toDestination)] = "/"
            THEN /\ dirs' = CreateDirectory(dirs, toDestination)
                 /\ LET lastSlash == FindLastOf(url, "/")
                    IN  IF lastSlash # npos
                        THEN /\ destination' =
                                    toDestination \o SubSeq(url, lastSlash + 1, Len(url))
                             /\ pc' = "d_init"
                             /\ ret' = ret
                        ELSE /\ destination' = toDestination
                             /\ pc' = "done"
                             /\ ret' = FALSE
            ELSE /\ dirs' = CreateDirectory(dirs, ParentDir(toDestination))
                 /\ destination' = toDestination
                 /\ pc' = "d_init"
                 /\ ret' = ret
    /\ UNCHANGED <<abortDownload, abortUnzip, downloadPercentage, files, op, calls,
                   handles, url, toDestination, retryCount, result, written, zip,
                   idx, success, extractedFilePath, req>>

\* lines 128-143: one iteration of the retry loop, and the return after it
DownloadCurlInit ==
    /\ pc = "d_init"
    /\ retryCount < MAX_RETRIES
    /\ \E initialised \in BOOLEAN :
          IF initialised
          THEN /\ handles' = Acquire(handles, "curl")
               /\ pc' = "d_open"
               /\ UNCHANGED <<retryCount, ret>>
          ELSE /\ retryCount' = retryCount + 1
               /\ IF retryCount + 1 < MAX_RETRIES
                  THEN pc' = pc /\ ret' = ret
                  ELSE pc' = "done" /\ ret' = FALSE
               /\ UNCHANGED handles
    /\ UNCHANGED <<abortDownload, abortUnzip, downloadPercentage, files, dirs, op,
                   calls, url, toDestination, destination, result, written, zip,
                   idx, success, extractedFilePath, req>>

\* lines 145-150
DownloadFopen ==
    /\ pc = "d_open"
    /\ \E opened \in BOOLEAN :
          IF opened /\ FopenPossible(dirs, destination)
          THEN /\ files' = FopenWb(files, destination)
               /\ handles' = Acquire(handles, "file")
               /\ pc' = "d_perform"
               /\ ret' = ret
          ELSE /\ handles' = Release(handles, "curl")
               /\ pc' = "done"
               /\ ret' = FALSE
               /\ UNCHANGED files
    /\ UNCHANGED <<abortDownload, abortUnzip, downloadPercentage, dirs, op, calls,
                   url, toDestination, destination, retryCount, result, written,
                   zip, idx, success, extractedFilePath, req>>

\* curl_easy_perform, line 187: the transport hands a byte to writeCallback
\* (lines 42-44)
TransferWrite ==
    /\ pc = "d_perform"
    /\ written < MaxBytes
    /\ written' = written + 1
    /\ files' = Fwrite(files, destination, 1)
    /\ handles' = Use(handles, "file")
    /\ UNCHANGED <<abortDownload, abortUnzip, downloadPercentage, dirs, pc, op,
                   calls, ret, url, toDestination, destination, retryCount, result,
                   zip, idx, success, extractedFilePath, req>>

\* curl_easy_perform, line 187: the transport invokes progressCallback; a
\* non-zero return ends the transfer with CURLE_ABORTED_BY_CALLBACK
TransferProgress(totalToDownload, nowDownloaded) ==
    /\ pc = "d_perform"
    /\ LET cb == progressCallback(downloadPercentage, abortDownload,
                                  totalToDownload, nowDownloaded)
       IN  /\ downloadPercentage' = cb.percentage
           /\ IF cb.rc # 0
              THEN pc' = "d_finish" /\ result' = "ABORTED_BY_CALLBACK"
              ELSE pc' = pc /\ result' = result
    /\ req' = IF req = "live" THEN "seen" ELSE req
    /\ UNCHANGED <<abortDownload, abortUnzip, files, dirs, op, calls, ret, handles,
                   url, toDestination, destination, retryCount, written, zip, idx,
                   success, extractedFilePath>>

\* curl_easy_perform, line 187, returns on its own: CURLE_OK or an error
TransferEnd(code) ==
    /\ pc = "d_perform"
    /\ result' = code
    /\ pc' = "d_finish"
    /\ UNCHANGED <<abortDownload, abortUnzip, downloadPercentage, files, dirs, op,
                   calls, ret, handles, url, toDestination, destination, retryCount,
                   written, zip, idx, success, extractedFilePath, req>>

\* lines 188-214
DownloadFinish ==
    /\ pc = "d_finish"
    /\ pc' = "done"
    /\ LET released == Release(Release(handles, "curl"), "file")
       IN  IF result # "OK"
           THEN /\ handles' = released
                /\ files' = StdRemove(files, destination)
                /\ ret' = FALSE
           ELSE /\ handles' = Use(released, "file")
                /\ \E fileSize \in FtellAfterFclose(written) :
                      IF fileSize = 0
                      THEN files' = StdRemove(files, destination) /\ ret' = FALSE
                      ELSE files' = files /\ ret' = TRUE
    /\ UNCHANGED <<abortDownload, abortUnzip, downloadPercentage, dirs, op, calls,
                   url, toDestination, destination, retryCount, result, written,
                   zip, idx, success, extractedFilePath, req>>


(***************************************************************************)
(* unzipFile, lines 227-316.                                               *)
(***************************************************************************)
\* lines 244-246 alone: only the empty name is skipped
SkippedRaw_EmptyNameOnly(dest, d_name) == d_name = <<>>

\* lines 244-254: the entry is skipped before its path is sanitised
SkippedRaw(dest, d_name) == d_name = <<>> \/ EndsWithDots(dest \o d_name)

\* lines 250-271: extractedFilePath after both sanitisation loops
ExtractedPath(dest, d_name) == CollapseSpaces(ReplaceColons(dest \o d_name))

\* lines 274-277: a directory entry
IsDirectoryPath(path) == path # <<>> /\ path[Len(path)] = "/"

\* the entry reaches createDirectory and zzip_file_open (lines 287-289)
Extractable(dest, d_name) ==
    /\ ~SkippedRaw(dest, d_name)
    /\ ~IsDirectoryPath(ExtractedPath(dest, d_name))

\* bytes zzip_file_read delivers for an entry
EntryBytes == 1

\* bytes the copy loop of lines 297-299 leaves in the output file
CopiedBytes(entry) == IF entry.open = "nowrite" THEN 0 ELSE EntryBytes

\* the value abortUnzip holds after line 228
AbortUnzipAtEntry(flag) == FALSE

\* the call and line 228
UnzipCall(z, d) ==
    /\ pc = "idle"
    /\ calls < MaxCalls
    /\ pc' = "u_open"
    /\ op' = "unzip"
    /\ calls' = calls + 1
    /\ ret' = FALSE
    /\ abortUnzip' = AbortUnzipAtEntry(abortUnzip)
    /\ req' = IF abortUnzip THEN "stale" ELSE "none"
    /\ handles' = NoHandles
    /\ url' = <<>>
    /\ toDestination' = d
    /\ destination' = <<>>
    /\ retryCount' = 0
    /\ result' = "none"
    /\ written' = 0
    /\ zip' = z
    /\ idx' = 0
    /\ success' = TRUE
    /\ extractedFilePath' = <<>>
    /\ UNCHANGED <<abortDownload, downloadPercentage, files, dirs>>

\* lines 230-236
UnzipOpen ==
    /\ pc = "u_open"
    /\ \E opened \in BOOLEAN :
          IF opened
          THEN /\ handles' = Acquire(handles, "dir")
               /\ success' = TRUE
               /\ pc' = "u_loop"
               /\ ret' = ret
          ELSE /\ pc' = "done"
               /\ ret' = FALSE
               /\ UNCHANGED <<handles, success>>
    /\ UNCHANGED <<abortDownload, abortUnzip, downloadPercentage, files, dirs, op,
                   calls, url, toDestination, destination, retryCount, result,
                   written, zip, idx, extractedFilePath, req>>

\* lines 239-242 without the store of line 240
UnzipAbortCheck_NoReset(flag) == [abortUnzip |-> flag, break |-> flag]

\* line 239 loading abortDownload instead of abortUnzip
UnzipAbortCheck_DownloadFlag(flag) == [abortUnzip |-> flag, break |-> abortDownload]

\* unzipFile at line 239 with the flag read there: [flag after, leave the loop]
UnzipAbortCheck(flag) ==
    IF flag
    THEN [abortUnzip |-> FALSE, break |-> TRUE]
    ELSE [abortUnzip |-> flag, break |-> FALSE]

\* a loop body that leaves the loop at the first entry that fails
AfterEntry_StopOnFailure(failed) == IF failed THEN "u_close" ELSE "u_loop"

\* the position the loop body of lines 244-311 leaves to
AfterEntry(failed) == "u_loop"

\* the value of success after an entry that failed to open (lines 304, 310)
SuccessAfterFailure(ok) == FALSE

\* lines 238-311: zzip_dir_read returns the next entry or 0; with an entry,
\* one iteration of the loop. Nothing but abortUnzip (line 239) is shared,
\* so the iteration is one step taken at the moment of that load.
UnzipIteration ==
    /\ pc = "u_loop"
    /\ IF idx >= Len(zip)
       THEN /\ pc' = "u_close"
            /\ handles' = Use(handles, "dir")
            /\ UNCHANGED <<abortUnzip, idx, files, dirs, success, extractedFilePath>>
       ELSE LET entry == zip[idx + 1]
                chk == UnzipAbortCheck(abortUnzip)
                path == ExtractedPath(toDestination, entry.d_name)
                zipOpened == entry.open # "nozip"
                outOpened == entry.open \in {"ok", "nowrite"} /\ FopenPossible(dirs, path)
                hs == Use(Use(handles, "dir"), "dir")
            IN  /\ idx' = idx + 1
                /\ abortUnzip' = chk.abortUnzip
                /\ IF chk.break
                   THEN /\ pc' = "u_close"
                        /\ handles' = Use(handles, "dir")
                        /\ UNCHANGED <<files, dirs, success, extractedFilePath>>
                   ELSE IF ~Extractable(toDestination, entry.d_name)
                   THEN /\ pc' = AfterEntry(FALSE)
                        /\ handles' = Use(handles, "dir")
                        /\ UNCHANGED <<files, dirs, success, extractedFilePath>>
                   ELSE /\ extractedFilePath' = path
                        /\ dirs' = CreateDirectory(dirs, ParentDir(path))
                        /\ pc' = AfterEntry(~(zipOpened /\ outOpened))
                        /\ IF zipOpened
                           THEN IF outOpened
                                THEN /\ files' = Fwrite(FopenWb(files, path), path,
                                                        CopiedBytes(entry))
                                     /\ handles' =
                                           Release(Release(Acquire(Acquire(hs, "zfile"),
                                                                   "outputFile"),
                                                           "outputFile"),
                                                   "zfile")
                                     /\ success' = success
                                ELSE /\ files' = files
                                     /\ handles' = Release(Acquire(hs, "zfile"), "zfile")
                                     /\ success' = SuccessAfterFailure(success)
                           ELSE /\ files' = files
                                /\ handles' = hs
                                /\ success' = SuccessAfterFailure(success)
    /\ UNCHANGED <<abortDownload, downloadPercentage, op, calls, ret, url,
                   toDestination, destination, retryCount, result, written, zip, req>>

\* the value unzipFile returns on line 315
UnzipResult(ok) == ok

\* lines 314-315
UnzipClose ==
    /\ pc = "u_close"
    /\ handles' = Release(handles, "dir")
    /\ pc' = "done"
    /\ ret' = UnzipResult(success)
    /\ UNCHANGED <<abortDownload, abortUnzip, downloadPercentage, files, dirs, op,
                   calls, url, toDestination, destination, retryCount, result,
                   written, zip, idx, success, extractedFilePath, req>>

(***************************************************************************)
(* The system.                                                             *)
(***************************************************************************)
\* the caller has taken the returned value (lines 215, 316): the locals of
\* the call are gone
Returned ==
    /\ pc = "done"
    /\ pc' = "idle"
    /\ op' = "none"
    /\ ret' = FALSE
    /\ req' = "none"
    /\ handles' = NoHandles
    /\ url' = <<>>
    /\ toDestination' = <<>>
    /\ destination' = <<>>
    /\ retryCount' = 0
    /\ result' = "none"
    /\ written' = 0
    /\ zip' = <<>>
    /\ idx' = 0
    /\ success' = TRUE
    /\ extractedFilePath' = <<>>
    /\ UNCHANGED <<abortDownload, abortUnzip, downloadPercentage, files, dirs, calls>>

Next ==
    \/ \E u \in Urls, d \in DownloadDests : DownloadCall(u, d)
    \/ DownloadValidate
    \/ DownloadCurlInit
    \/ DownloadFopen
    \/ TransferWrite
    \/ \E t \in Totals, n \in Nows : TransferProgress(t, n)
    \/ \E code \in {"OK", "ERROR"} : TransferEnd(code)
    \/ DownloadFinish
    \/ \E z \in Archives, d \in UnzipDests : UnzipCall(z, d)
    \/ UnzipOpen
    \/ UnzipIteration
    \/ UnzipClose
    \/ Returned
    \/ RequestAbortDownload
    \/ RequestAbortUnzip

Spec == Init /\ [][Next]_vars

\* once curl_easy_perform has returned, lines 188-214 run to the return
FairSpec == Spec /\ WF_vars(DownloadFinish)

(***************************************************************************)
(* downloadFile called twice with the same arguments against a resource of *)
(* MaxBytes bytes, and no abort request.                                   *)
(***************************************************************************)
\* the caller has taken true from a call whose transfer delivered the whole
\* resource and calls downloadFile again with the same url and toDestination
\* (line 94, and line 95 for the flag)
DownloadAgain ==
    /\ pc = "done"
    /\ op = "download"
    /\ calls < MaxCalls
    /\ ret = TRUE
    /\ result = "OK"
    /\ written = MaxBytes
    /\ pc' = "d_validate"
    /\ calls' = calls + 1
    /\ ret' = FALSE
    /\ abortDownload' = AbortDownloadAtEntry(abortDownload)
    /\ req' = IF abortDownload THEN "stale" ELSE "none"
    /\ handles' = NoHandles
    /\ destination' = <<>>
    /\ retryCount' = 0
    /\ result' = "none"
    /\ written' = 0
    /\ UNCHANGED <<op, url, toDestination, zip, idx, success, extractedFilePath,
                   abortUnzip, downloadPercentage, files, dirs>>

TwiceNext ==
    \/ \E u \in Urls, d \in DownloadDests : DownloadCall(u, d)
    \/ DownloadValidate
    \/ DownloadCurlInit
    \/ DownloadFopen
    \/ TransferWrite
    \/ \E t \in Totals, n \in Nows : TransferProgress(t, n)
    \/ \E code \in {"OK", "ERROR"} : TransferEnd(code)
    \/ DownloadFinish
    \/ DownloadAgain

TwiceSpec == Init /\ [][TwiceNext]_vars


(***************************************************************************)
(* unzipFile alone, over archives that also hold an entry whose copy loop  *)
(* fails.                                                                  *)
(***************************************************************************)
WriteFailEntries == { [d_name |-> <<"a">>, open |-> "nowrite"] }

UnzipArchives == SeqsUpTo(Entries \cup WriteFailEntries, MaxEntries)

UnzipNext ==
    \/ \E z \in UnzipArchives, d \in UnzipDests : UnzipCall(z, d)
    \/ UnzipOpen
    \/ UnzipIteration
    \/ UnzipClose
    \/ Returned
    \/ RequestAbortUnzip

UnzipSpec == Init /\ [][UnzipNext]_vars


(***************************************************************************)
(* The sanitisation of one entry's path, lines 244-271 of unzipFile, step  *)
(* by step, for every destination of SanDests and every name of SanNames.  *)
(***************************************************************************)
SanChars == {"a", ":", " ", "."}

ExampleName == <<"a", ":", "b", ":", "c", ".", "t", "x", "t">>

SanNames == SeqsUpTo(SanChars, MaxNameLen) \cup {ExampleName}

SanDests == { <<"o", "/">>, <<"s", ":", "/">>, <<"o", " ">> }

SanInit ==
    /\ abortDownload = FALSE
    /\ abortUnzip = FALSE
    /\ downloadPercentage = -1
    /\ files = << >>
    /\ dirs = {}
    /\ pc = "s_name"
    /\ op = "unzip"
    /\ calls = 1
    /\ ret = FALSE
    /\ req = "none"
    /\ handles = [NoHandles EXCEPT !["dir"] = "open"]
    /\ url = <<>>
    /\ toDestination \in SanDests
    /\ destination = <<>>
    /\ retryCount = 0
    /\ result = "none"
    /\ written = 0
    /\ \E n \in SanNames : zip = << [d_name |-> n, open |-> "ok"] >>
    /\ idx = 1
    /\ success = TRUE
    /\ extractedFilePath = <<>>

sanFrame == <<abortDownload, abortUnzip, downloadPercentage, files, dirs, op, calls,
              ret, req, handles, url, toDestination, destination, retryCount,
              result, written, zip, idx, success>>

\* lines 244-254
SanName ==
    /\ pc = "s_name"
    /\ IF SkippedRaw(toDestination, zip[idx].d_name)
       THEN pc' = "s_skipped" /\ UNCHANGED extractedFilePath
       ELSE pc' = "s_colons" /\ extractedFilePath' = toDestination \o zip[idx].d_name
    /\ UNCHANGED sanFrame

\* lines 256-264
SanColons ==
    /\ pc = "s_colons"
    /\ extractedFilePath' = ReplaceColons(extractedFilePath)
    /\ pc' = "s_spaces"
    /\ UNCHANGED sanFrame

\* lines 266-271
SanSpaces ==
    /\ pc = "s_spaces"
    /\ extractedFilePath' = CollapseSpaces(extractedFilePath)
    /\ pc' = "s_done"
    /\ UNCHANGED sanFrame

\* lines 273-311 for an entry that opens in the archive: the directory test,
\* createDirectory, zzip_file_open, fopen, the copy loop and the two closes
SanExtract ==
    /\ pc = "s_done"
    /\ IF IsDirectoryPath(extractedFilePath)
       THEN /\ pc' = "s_directory"
            /\ UNCHANGED <<files, dirs, success>>
       ELSE /\ pc' = "s_extracted"
            /\ dirs' = CreateDirectory(dirs, ParentDir(extractedFilePath))
            /\ IF FopenPossible(dirs', extractedFilePath)
               THEN /\ files' = Fwrite(FopenWb(files, extractedFilePath),
                                       extractedFilePath, EntryBytes)
                    /\ success' = success
               ELSE /\ files' = files
                    /\ success' = SuccessAfterFailure(success)
    /\ UNCHANGED <<abortDownload, abortUnzip, downloadPercentage, op, calls, ret,
                   req, handles, url, toDestination, destination, retryCount,
                   result, written, zip, idx, extractedFilePath>>

SanNext == SanName \/ SanColons \/ SanSpaces \/ SanExtract

SanSpec == SanInit /\ [][SanNext]_vars


(***************************************************************************)
(* Vocabulary of the properties.                                           *)
(***************************************************************************)
HasBrace(u) == \E i \in 1..Len(u) : u[i] \in {"{", "}"}

ColonCount(s) == Cardinality({i \in 1..Len(s) : s[i] = ":"})

\* s with every colon but its first turned into a space
LaterColonsToSpaces(s) ==
    [i \in 1..Len(s) |->
        IF s[i] = ":" /\ (\E j \in 1..(i - 1) : s[j] = ":") THEN " " ELSE s[i]]

\* s with every colon turned into a space
AllColonsToSpaces(s) == [i \in 1..Len(s) |-> IF s[i] = ":" THEN " " ELSE s[i]]

RECURSIVE SingleSpaced(_)
\* s with every run of spaces reduced to one space
SingleSpaced(s) ==
    IF Len(s) <= 1
    THEN s
    ELSE IF s[1] = " " /\ s[2] = " "
         THEN SingleSpaced(Tail(s))
         ELSE <<s[1]>> \o SingleSpaced(Tail(s))

HasTripleSpace(s) ==
    \E i \in 1..(Len(s) - 2) : s[i] = " " /\ s[i + 1] = " " /\ s[i + 2] = " "

\* an entry that reaches zzip_file_open and does not open (in the archive or
\* as the output file)
FailingEntry(dest, e) == Extractable(dest, e.d_name) /\ e.open # "ok"

\* an entry that reaches zzip_file_open and opens both ways
ValidEntry(dest, e) == Extractable(dest, e.d_name) /\ e.open = "ok"

SanEntryName == zip[1].d_name

\* an entry that reaches zzip_file_open and whose zzip_file_open or fopen fails
OpenFailedEntry(dest, e) == Extractable(dest, e.d_name) /\ e.open \in {"nozip", "noout"}

\* an entry that reaches the copy loop and is not written
WriteFailedEntry(dest, e) == Extractable(dest, e.d_name) /\ e.open = "nowrite"


(***************************************************************************)
(* Properties.                                                             *)
(***************************************************************************)

\* C1: when an abort-download request is made during a download (after the
\* store of line 95) and progressCallback is invoked after it, downloadFile
\* returns, and when it has returned it has returned false, the percentage
\* is -1 and the destination file does not exist.
C1_AbortedDownload ==
    /\ [](pc = "done" /\ op = "download" /\ req = "seen"
            => /\ ret = FALSE
               /\ downloadPercentage = -1
               /\ destination \notin DOMAIN files)
    /\ ((op = "download" /\ req = "seen")
            ~> (pc = "done" /\ op = "download" /\ ret = FALSE
                /\ downloadPercentage = -1 /\ destination \notin DOMAIN files))

\* C1 happens: a download that had written bytes was aborted and returned
C1_Witness ==
    /\ pc = "done" /\ op = "download" /\ req = "seen"
    /\ written > 0
    /\ result = "ABORTED_BY_CALLBACK"

\* C2: a download whose transfer succeeds with zero bytes written returns
\* false and leaves no destination file.
C2_EmptyFileRejected ==
    (pc = "done" /\ op = "download" /\ result = "OK" /\ written = 0)
        => (ret = FALSE /\ destination \notin DOMAIN files)

\* C3: when an entry fails to open and no abort is requested during the
\* call, unzipFile reads the whole archive, every valid entry (before and
\* after the failing one) is a file of the destination tree on return, and
\* unzipFile returns false.
C3_FailureDoesNotStopTheWalk ==
    (/\ pc = "done" /\ op = "unzip"
     /\ handles["dir"] # "none"
     /\ req # "live"
     /\ \E k \in 1..Len(zip) : FailingEntry(toDestination, zip[k]))
        => /\ idx = Len(zip)
           /\ ret = FALSE
           /\ \A i \in 1..Len(zip) :
                 ValidEntry(toDestination, zip[i])
                     => ExtractedPath(toDestination, zip[i].d_name) \in DOMAIN files

\* C3 happens: the first entry failed and the valid entry after it is there
C3_Witness ==
    /\ pc = "done" /\ op = "unzip" /\ req = "none"
    /\ Len(zip) = 2
    /\ FailingEntry(toDestination, zip[1])
    /\ ValidEntry(toDestination, zip[2])
    /\ ExtractedPath(toDestination, zip[2].d_name) \in DOMAIN files
    /\ ret = FALSE

\* C4: the iteration that finds abortUnzip set stores false into it, leaves
\* the loop without touching the filesystem or success, which at that point
\* is true exactly if no entry processed so far failed; and what unzipFile
\* then returns is that value of success, the filesystem still untouched.
C4_AbortKeepsResult ==
    [][ /\ (pc = "u_loop" /\ idx < Len(zip) /\ abortUnzip /\ idx' # idx)
            => /\ abortUnzip' = FALSE
               /\ pc' = "u_close"
               /\ files' = files /\ dirs' = dirs
               /\ success' = success
               /\ success = (\A i \in 1..idx : ~FailingEntry(toDestination, zip[i]))
        /\ (pc = "u_close" /\ pc' # pc)
            => /\ pc' = "done"
               /\ ret' = success
               /\ files' = files /\ dirs' = dirs
      ]_vars

\* C4 happens: the walk was aborted at a valid second entry after a failed
\* first one, and returned false with the second entry not extracted
C4_Witness ==
    /\ pc = "done" /\ op = "unzip"
    /\ Len(zip) = 2 /\ idx = 2
    /\ FailingEntry(toDestination, zip[1])
    /\ ValidEntry(toDestination, zip[2])
    /\ ExtractedPath(toDestination, zip[2].d_name) \notin DOMAIN files
    /\ abortUnzip = FALSE
    /\ ret = FALSE

\* C5: for a url with a brace, downloadFile returns false from its first
\* check: it holds no handle and has changed neither the files nor the
\* directories, from the call to the return.
C5_BraceUrlRejected ==
    [][ /\ (pc = "idle" /\ pc' = "d_validate")
            => (handles' = NoHandles /\ files' = files /\ dirs' = dirs)
        /\ (pc = "d_validate" /\ HasBrace(url) /\ pc' # pc)
            => /\ pc' = "done"
               /\ ret' = FALSE
               /\ handles = NoHandles /\ handles' = NoHandles
               /\ files' = files /\ dirs' = dirs
      ]_vars

\* C5 happens: a download of a url with a closing brace has returned
C5_Witness ==
    /\ pc = "done" /\ op = "download"
    /\ url = <<"}", "/", "f">>
    /\ ret = FALSE
    /\ handles = NoHandles

\* C6: a flag that is set while its function runs was set by a request made
\* after the function's store at entry: a request made while nothing was in
\* flight (or left by an earlier call) never reaches a checkpoint.
C6_StaleRequestIgnored ==
    /\ (InDownload /\ abortDownload) => req \in {"live", "seen"}
    /\ (InUnzip /\ abortUnzip) => req = "live"

\* C6 happens: a download called with the flag set has written bytes and
\* its transfer has ended with CURLE_OK
C6_Witness ==
    /\ pc = "d_finish" /\ req = "stale"
    /\ result = "OK"
    /\ written > 0

\* C7: the step in which progressCallback finds abortDownload set and aborts
\* the transfer leaves abortDownload false.
C7_AbortFlagConsumed ==
    [][(pc = "d_perform" /\ result' = "ABORTED_BY_CALLBACK") => abortDownload' = FALSE]_vars

\* C8: no handle is released twice, used after its release or overwritten
\* while open, and none is open when the function has returned.
C8_HandlesReleasedOnce ==
    /\ \A h \in HandleNames : handles[h] # "misused"
    /\ pc = "done" => \A h \in HandleNames : handles[h] \in {"none", "closed"}

\* C9: the percentage is in [-1, 100].
C9_PercentageRange == downloadPercentage \in (-1)..100

C11_SkippedEntryLeavesNoTrace ==
    (SanEntryName = <<>> \/ EndsWithDots(ExtractedPath(toDestination, SanEntryName)))
        => /\ pc \in {"s_name", "s_skipped"}
           /\ files = << >>
           /\ dirs = {}
           /\ success = TRUE

\* a name whose path ends in "..." behind a colon has been skipped
C11_Witness ==
    /\ pc = "s_skipped"
    /\ SanEntryName = <<":", ".", ".", ".">>
    /\ files = << >>
    /\ dirs = {}

\* C12: when no abort is requested during the call (so every entry is
\* processed), unzipFile returns true exactly if the archive opened and no
\* entry failed to open or to be written.
C12_TrueIffNothingFailed ==
    (pc = "done" /\ op = "unzip" /\ req # "live")
        => (ret = (/\ handles["dir"] # "none"
                   /\ \A i \in 1..Len(zip) :
                         /\ ~OpenFailedEntry(toDestination, zip[i])
                         /\ ~WriteFailedEntry(toDestination, zip[i])))

\* C13: when downloadFile, having returned true for a resource of MaxBytes
\* bytes, is called again with the same url and toDestination and its
\* transfer again delivers the whole resource, the second call returns true
\* and the destination file exists with the resource's size.
C13_SecondDownloadSame ==
    (pc = "done" /\ op = "download" /\ calls = 2
     /\ result = "OK" /\ written = MaxBytes)
        => /\ ret = TRUE
           /\ destination \in DOMAIN files
           /\ files[destination] = MaxBytes

\* C14: once the collapsing loop of lines 267-271 has run, the path holds
\* no two consecutive spaces, whatever the name and the destination.
C14_NoDoubleSpaceLeft ==
    (pc \in {"s_done", "s_extracted", "s_directory"})
        => \A i \in 1..(Len(extractedFilePath) - 1) :
              ~(extractedFilePath[i] = " " /\ extractedFilePath[i + 1] = " ")

\* C15: a call that downloadFile ends on one of its two validation errors
\* (a brace in the url, lines 97-100; a destination ending in "/" with a url
\* without "/", lines 109-115) leaves the files and the directories as they
\* were.
C15_ValidationBeforeIO ==
    [][ (pc = "d_validate" /\ pc' = "done")
            => (files' = files /\ dirs' = dirs) ]_vars

\* C16: every attempt to get a curl handle (lines 127-143) is the first,
\* second or third of its call; a successful one leaves the loop with the
\* handle, a failed one is followed by another attempt only if it was not
\* the third, and the third failure returns false with no handle, the
\* files as they were and no transfer started.
C16_AtMostThreeAttempts ==
    [][ (pc = "d_init" /\ <<pc, retryCount, handles>>' # <<pc, retryCount, handles>>)
            => /\ retryCount < 3
               /\ \/ /\ handles'["curl"] = "open"
                     /\ pc' = "d_open"
                     /\ retryCount' = retryCount
                  \/ /\ handles' = handles
                     /\ retryCount' = retryCount + 1
                     /\ retryCount' < 3
                     /\ pc' = "d_init"
                  \/ /\ retryCount' = 3
                     /\ pc' = "done"
                     /\ ret' = FALSE
                     /\ handles' = NoHandles
                     /\ files' = files
                     /\ result' = "none"
                     /\ written' = 0
      ]_vars

\* all three attempts failed and downloadFile has returned false
C16_Witness ==
    /\ pc = "done" /\ op = "download"
    /\ retryCount = 3
    /\ ret = FALSE
    /\ handles = NoHandles
    /\ destination \notin DOMAIN files

\* C17: wherever curl_easy_perform may invoke progressCallback, an
\* invocation with a total of zero or less leaves the percentage as it is
\* and returns 0 when abortDownload is clear, and stores -1 and returns a
\* non-zero value when abortDownload is set.
C17_UnknownTotal ==
    (pc = "d_perform")
        => \A t \in Totals, n \in Nows :
              (t <= 0)
                  => LET cb == progressCallback(downloadPercentage, abortDownload, t, n)
                     IN  IF abortDownload
                         THEN cb.percentage = -1 /\ cb.rc # 0
                         ELSE cb.percentage = downloadPercentage /\ cb.rc = 0

\* a transfer in which 100 has been published and the flag has then been set:
\* the next invocation, whatever its total, is one of the claim's
C17_Witness ==
    /\ pc = "d_perform"
    /\ downloadPercentage = 100
    /\ abortDownload = TRUE

\* C18 as stated: whenever no download is running (none has been called,
\* or the last one has returned) the percentage is -1.
C18_IdleReadsMinusOne ==
    (~InDownload) => downloadPercentage = -1

\* C18, amended: the percentage is -1 until the first call; a download that
\* curl_easy_perform ended because progressCallback returned non-zero has
\* returned with the percentage at -1; and no step outside a transfer
\* changes the percentage, so after any other return it keeps the value the
\* last invocation of progressCallback left.
C18_MinusOneAfterAbortOnly ==
    /\ [](calls = 0 => downloadPercentage = -1)
    /\ []((pc = "done" /\ op = "download" /\ result = "ABORTED_BY_CALLBACK")
            => downloadPercentage = -1)
    /\ [][pc # "d_perform" => downloadPercentage' = downloadPercentage]_vars

\* a download has returned true and the percentage still reads 100
C18_Witness ==
    /\ pc = "done" /\ op = "download"
    /\ result = "OK"
    /\ ret = TRUE
    /\ downloadPercentage = 100

\* C19: the percentage changes only in a step of a transfer (the progress
\* callback); abortDownload is cleared only by the entry of downloadFile and
\* abortUnzip only by unzipFile; curl_easy_perform is ended by the callback
\* only with abortDownload set, whatever abortUnzip is; and the loop of
\* unzipFile is left before the end of the archive only with abortUnzip set,
\* whatever abortDownload is.
C19_OwnFieldsOnly ==
    [][ /\ (downloadPercentage' # downloadPercentage) => pc = "d_perform"
        /\ (abortDownload /\ ~abortDownload') => (pc = "idle" /\ pc' = "d_validate")
        /\ (abortUnzip /\ ~abortUnzip')
               => ((pc = "idle" /\ pc' = "u_open") \/ pc = "u_loop")
        /\ (result' # result /\ result' = "ABORTED_BY_CALLBACK") => abortDownload
        /\ (pc = "u_loop" /\ idx' # idx /\ pc' = "u_close") => abortUnzip
      ]_vars

\* an extraction of two valid entries has run to its end and returned true
\* with abortDownload set and the percentage of an earlier download in place
C19_Witness ==
    /\ pc = "done" /\ op = "unzip"
    /\ abortDownload = TRUE
    /\ downloadPercentage = 100
    /\ Len(zip) = 2 /\ idx = 2
    /\ \A i \in 1..2 :
          /\ ValidEntry(toDestination, zip[i])
          /\ ExtractedPath(toDestination, zip[i].d_name) \in DOMAIN files
    /\ ret = TRUE

=============================================================================
